---------------------------- MODULE Spec2Model ----------------------------
(***************************************************************************)
(* A model of DensityOnChrHeatmap.py: one run of create_visualization on   *)
(* a gene table and an SNP table.                                          *)
(*                                                                         *)
(* A file is a sequence of lines, a line the sequence of its whitespace-   *)
(* separated fields (what line.strip().split() returns), a field a         *)
(* sequence of one-character strings.  Python floats are modelled as exact *)
(* rationals <<num, den>>; the one irrational quantity, stdev, is carried  *)
(* symbolically: a number of the colour pipeline is a + b*sqrt(r) with a,  *)
(* b rational and r the sample variance.  Rounding of binary floating      *)
(* point is not modelled.                                                  *)
(***************************************************************************)
EXTENDS Integers, Sequences, FiniteSets, TLC

VARIABLES
    genes_file,     \* the lines of the gene table (never written)
    snps_file,      \* the lines of the SNP table (never written)
    pc,             \* the position of create_visualization
    genes_data,     \* dict chrom -> list of (start, end, value), insertion order
    snps_data,      \* the same for the SNP table
    chromosomes,    \* sorted(genes_data.keys(), key=...)
    svg_height,
    chr_lengths,    \* dict chrom -> length
    max_chr_len,
    max_snp_value,
    mean,
    stdev,
    i,              \* index (from 0) of the chromosome being rendered
    chr_shape,      \* the capsule of the chromosome being rendered
    points,         \* the SNP points of the chromosome being rendered
    dwg,            \* the elements added to the drawing, in order
    defs,           \* the drawing's <defs>: the clip paths, in order
    output_file,    \* the documents written to the output file, in order
    error           \* the exception that ended the run, or None

vars == <<genes_file, snps_file, pc, genes_data, snps_data, chromosomes,
          svg_height, chr_lengths, max_chr_len, max_snp_value, mean, stdev,
          i, chr_shape, points, dwg, defs, output_file, error>>

None == "None"

-----------------------------------------------------------------------------
(* Layout constants of create_visualization.                               *)

svg_width == 1200
chr_height == 14
chr_spacing == 120
margin_top == 160
margin_bottom == 100
margin_side == 100
heatmap_scale_width == 100
heatmap_scale_height == 20
snp_band == 100
snp_gap == 30
ruler_ticks == 6
prefix_len == 3

colors == <<"#d1e5f0", "#92c5de", "#4393c3", "#2166ac", "#053061">>

-----------------------------------------------------------------------------
(* Exact rationals <<num, den>>, den > 0, in lowest terms.                 *)

Abs(n) == IF n < 0 THEN 0 - n ELSE n

RECURSIVE GCD(_, _)
GCD(a, b) == IF b = 0 THEN a ELSE GCD(b, a % b)

Rat(n, d) ==
    LET g == GCD(Abs(n), Abs(d))
        s == IF d < 0 THEN 0 - 1 ELSE 1
    IN  <<(s * n) \div g, (s * d) \div g>>

RInt(n) == <<n, 1>>
RAdd(p, q) == Rat(p[1] * q[2] + q[1] * p[2], p[2] * q[2])
RSub(p, q) == Rat(p[1] * q[2] - q[1] * p[2], p[2] * q[2])
RMul(p, q) == Rat(p[1] * q[1], p[2] * q[2])
\* p / q, for q # 0 (the caller raises ZeroDivisionError otherwise)
RDiv(p, q) == Rat(p[1] * q[2], p[2] * q[1])
RLe(p, q) == p[1] * q[2] <= q[1] * p[2]
RLt(p, q) == p[1] * q[2] < q[1] * p[2]
RSign(p) == IF p[1] > 0 THEN 1 ELSE IF p[1] < 0 THEN 0 - 1 ELSE 0
\* Python's max(a, b) returns a unless b > a; min(a, b) returns a unless b < a
RMax(p, q) == IF RLt(p, q) THEN q ELSE p
RMin(p, q) == IF RLt(q, p) THEN q ELSE p
\* the least integer >= |p|
RCeilAbs(p) == (Abs(p[1]) + p[2] - 1) \div p[2]

-----------------------------------------------------------------------------
(* Numbers a + b*sqrt(r): a, b, r rational, r >= 0.  Two operands with b # 0*)
(* always carry the same r (the sample variance of the run).               *)

Q(a, b, r) == [a |-> a, b |-> b, r |-> r]
QRat(a) == Q(a, RInt(0), RInt(0))
QRad(x, y) == IF RSign(x.b) # 0 THEN x.r ELSE y.r

\* the sign of a + b*sqrt(r), by comparing a^2 with b^2 * r
QSign(x) ==
    LET sa == RSign(x.a)
        sb == IF RSign(x.r) = 0 THEN 0 ELSE RSign(x.b)
        a2 == RMul(x.a, x.a)
        b2r == RMul(RMul(x.b, x.b), x.r)
    IN  IF sb = 0 THEN sa
        ELSE IF sa = 0 THEN sb
        ELSE IF sa = sb THEN sa
        ELSE IF RLt(b2r, a2) THEN sa
        ELSE IF RLt(a2, b2r) THEN sb
        ELSE 0

QAdd(x, y) == Q(RAdd(x.a, y.a), RAdd(x.b, y.b), QRad(x, y))
QSub(x, y) == Q(RSub(x.a, y.a), RSub(x.b, y.b), QRad(x, y))
QScale(x, k) == Q(RMul(x.a, k), RMul(x.b, k), x.r)
QLt(x, y) == QSign(QSub(x, y)) < 0
QLe(x, y) == QSign(QSub(x, y)) <= 0
QEq(x, y) == QSign(QSub(x, y)) = 0
QMax(x, y) == IF QLt(x, y) THEN y ELSE x
QMin(x, y) == IF QLt(y, x) THEN y ELSE x

\* x / y for y # 0: multiply by the conjugate of y and divide by its norm
QDiv(x, y) ==
    LET r == QRad(x, y)
        norm == RSub(RMul(y.a, y.a), RMul(RMul(y.b, y.b), r))
    IN  IF RSign(y.b) = 0 \/ RSign(r) = 0
          THEN Q(RDiv(x.a, y.a), RDiv(x.b, y.a), x.r)
        ELSE IF RSign(y.a) = 0
          THEN Q(RDiv(x.b, y.b), RDiv(x.a, RMul(y.b, r)), r)
        ELSE IF RSign(norm) = 0
          \* sqrt(r) = -a/b is rational and y = 2a... or y's conjugate is 0
          THEN LET s == RDiv(RSub(RInt(0), y.a), y.b)
                   t == IF RSign(s) >= 0 THEN s ELSE RSub(RInt(0), s)
               IN  QRat(RDiv(RAdd(x.a, RMul(x.b, t)), RAdd(y.a, RMul(y.b, t))))
        ELSE Q(RDiv(RSub(RMul(x.a, y.a), RMul(RMul(x.b, y.b), r)), norm),
               RDiv(RSub(RMul(x.b, y.a), RMul(x.a, y.b)), norm), r)

\* int(x): truncation toward zero
QTrunc(x) ==
    LET s == QSign(x)
        m == IF s < 0 THEN QScale(x, RInt(0 - 1)) ELSE x
        top == RCeilAbs(m.a) + RCeilAbs(m.b) * (RCeilAbs(m.r) + 1)
        k == CHOOSE n \in 0..top :
                /\ QLe(QRat(RInt(n)), m)
                /\ \A n2 \in 0..top : QLe(QRat(RInt(n2)), m) => n2 <= n
    IN  s * k

-----------------------------------------------------------------------------
(* Python dicts: a sequence of <<key, value>> pairs in insertion order.    *)

Keys(d) == [k \in 1..Len(d) |-> d[k][1]]
Values(d) == [k \in 1..Len(d) |-> d[k][2]]
Has(d, key) == \E k \in 1..Len(d) : d[k][1] = key
\* d[key], for a key of d (the caller raises KeyError otherwise)
Get(d, key) == d[CHOOSE k \in 1..Len(d) : d[k][1] = key][2]
\* d[key] = val
Put(d, key, val) ==
    IF Has(d, key)
      THEN [k \in 1..Len(d) |-> IF d[k][1] = key THEN <<key, val>> ELSE d[k]]
      ELSE Append(d, <<key, val>>)

Range(s) == {s[k] : k \in 1..Len(s)}

RECURSIVE Concat(_)
Concat(ss) == IF ss = <<>> THEN <<>> ELSE Head(ss) \o Concat(Tail(ss))

-----------------------------------------------------------------------------
(* int(text) and float(text) on a field.  The fields of the model are made *)
(* of letters, digits and signs: int accepts an optional sign followed by  *)
(* at least one digit, and float accepts the same literals (the model's    *)
(* values are integral).                                                   *)

Digits == <<"0", "1", "2", "3", "4", "5", "6", "7", "8", "9">>
IsDigit(c) == \E d \in 1..Len(Digits) : Digits[d] = c
DigitVal(c) == (CHOOSE d \in 1..Len(Digits) : Digits[d] = c) - 1

RECURSIVE DigitsVal(_, _)
DigitsVal(text, acc) ==
    IF text = <<>> THEN acc
    ELSE DigitsVal(Tail(text), acc * Len(Digits) + DigitVal(Head(text)))

IsInt(text) ==
    LET body == IF text # <<>> /\ Head(text) \in {"+", "-"} THEN Tail(text) ELSE text
    IN  body # <<>> /\ \A k \in 1..Len(body) : IsDigit(body[k])

\* for a text with IsInt(text) (the caller raises ValueError otherwise)
int(text) ==
    IF Head(text) = "-" THEN 0 - DigitsVal(Tail(text), 0)
    ELSE IF Head(text) = "+" THEN DigitsVal(Tail(text), 0)
    ELSE DigitsVal(text, 0)

IsFloat(text) == IsInt(text)
float(text) == RInt(int(text))

\* x[3:]
Suffix(name) == SubSeq(name, prefix_len + 1, Len(name))

-----------------------------------------------------------------------------
(* read_data: the dict of a file, or the failure of its first bad line.    *)

LineOk(line) ==
    /\ Len(line) = 4
    /\ IsInt(line[2])
    /\ IsInt(line[3])
    /\ IsFloat(line[4])

RECURSIVE read_lines(_, _)
read_lines(lines, data) ==
    IF lines = <<>> THEN data
    ELSE LET line == Head(lines)
             chrom == line[1]
             rec == <<int(line[2]), int(line[3]), float(line[4])>>
             old == IF Has(data, chrom) THEN Get(data, chrom) ELSE <<>>
         IN  read_lines(Tail(lines), Put(data, chrom, Append(old, rec)))

\* a loader that keeps each chromosome's records sorted by start
RECURSIVE InsertByStart(_, _)
InsertByStart(recs, rec) ==
    IF recs = <<>> THEN <<rec>>
    ELSE IF rec[1] < Head(recs)[1] THEN <<rec>> \o recs
    ELSE <<Head(recs)>> \o InsertByStart(Tail(recs), rec)

RECURSIVE read_lines_sorted(_, _)
read_lines_sorted(lines, data) ==
    IF lines = <<>> THEN data
    ELSE LET line == Head(lines)
             chrom == line[1]
             rec == <<int(line[2]), int(line[3]), float(line[4])>>
             old == IF Has(data, chrom) THEN Get(data, chrom) ELSE <<>>
         IN  read_lines_sorted(Tail(lines), Put(data, chrom, InsertByStart(old, rec)))

read_data_sorted(lines) == read_lines_sorted(lines, <<>>)

FileOk(lines) == \A k \in 1..Len(lines) : LineOk(lines[k])
read_data(lines) == read_lines(lines, <<>>)

\* max(end for _, end, _ in data), for a non-empty list
RECURSIVE MaxInt(_)
MaxInt(s) ==
    IF Len(s) = 1 THEN s[1]
    ELSE LET m == MaxInt(Tail(s)) IN IF m > Head(s) THEN m ELSE Head(s)

\* the largest start instead of the largest end
get_chromosome_length_by_start(data) == MaxInt([k \in 1..Len(data) |-> data[k][1]])

get_chromosome_length(data) == MaxInt([k \in 1..Len(data) |-> data[k][2]])

RECURSIVE MaxRat(_)
MaxRat(s) ==
    IF Len(s) = 1 THEN s[1] ELSE RMax(Head(s), MaxRat(Tail(s)))

RECURSIVE MinRat(_)
MinRat(s) ==
    IF Len(s) = 1 THEN s[1] ELSE RMin(Head(s), MinRat(Tail(s)))

RECURSIVE SetToSeqInt(_)
SetToSeqInt(S) ==
    IF S = {} THEN <<>>
    ELSE LET x == CHOOSE y \in S : TRUE IN <<x>> \o SetToSeqInt(S \ {x})

RECURSIVE SumRat(_)
SumRat(s) == IF s = <<>> THEN RInt(0) ELSE RAdd(Head(s), SumRat(Tail(s)))

-----------------------------------------------------------------------------
(* sorted(keys, key=lambda x: int(x[3:])): a stable sort.                  *)

SortKey(name) == int(Suffix(name))

\* insert x after the last element whose key is <= x's key
RECURSIVE InsertSorted(_, _)
InsertSorted(s, x) ==
    IF s = <<>> THEN <<x>>
    ELSE IF SortKey(x) < SortKey(Head(s)) THEN <<x>> \o s
    ELSE <<Head(s)>> \o InsertSorted(Tail(s), x)

\* the keys left in insertion order
unsorted(s) == s

RECURSIVE sorted(_)
sorted(s) ==
    IF s = <<>> THEN <<>>
    ELSE InsertSorted(sorted(SubSeq(s, 1, Len(s) - 1)), s[Len(s)])

-----------------------------------------------------------------------------
(* statistics.mean and statistics.stdev of a list of at least 2 values.    *)

statistics_mean(xs) == RDiv(SumRat(xs), RInt(Len(xs)))

statistics_variance(xs) ==
    LET m == statistics_mean(xs)
        sq == [k \in 1..Len(xs) |-> RMul(RSub(xs[k], m), RSub(xs[k], m))]
    IN  RDiv(SumRat(sq), RInt(Len(xs) - 1))

statistics_stdev(xs) == Q(RInt(0), RInt(1), statistics_variance(xs))

-----------------------------------------------------------------------------
(* str(n) and the format "{x:.1f}" (round to tenths, ties to even).        *)

RECURSIVE StrNat(_)
StrNat(n) ==
    IF n < Len(Digits) THEN <<Digits[n + 1]>>
    ELSE StrNat(n \div Len(Digits)) \o <<Digits[(n % Len(Digits)) + 1]>>

str(n) == IF n < 0 THEN <<"-">> \o StrNat(0 - n) ELSE StrNat(n)

format_1f(x) ==
    LET num == Abs(x[1]) * Len(Digits)
        fl == num \div x[2]
        rem2 == 2 * (num % x[2])
        tenths == IF rem2 > x[2] \/ (rem2 = x[2] /\ fl % 2 = 1) THEN fl + 1 ELSE fl
    IN  (IF x[1] < 0 THEN <<"-">> ELSE <<>>)
        \o StrNat(tenths \div Len(Digits)) \o <<".">>
        \o StrNat(tenths % Len(Digits))

-----------------------------------------------------------------------------
(* The geometry and colour arithmetic of create_visualization.             *)

radius(height) == RDiv(RInt(height), RInt(2))

create_chromosome_shape(x, y, width, height) ==
    LET r == radius(height)
        left == RAdd(x, r)
        right == RSub(RAdd(x, width), r)
        bottom == RAdd(y, RInt(height))
    IN  [tag |-> "path",
         d |-> << <<"M", left, y>>,
                  <<"L", right, y>>,
                  <<"A", r, r, 0, 0, 1, right, bottom>>,
                  <<"L", left, bottom>>,
                  <<"A", r, r, 0, 0, 1, left, y>>,
                  <<"Z">> >>,
         fill |-> None, stroke |-> None]

\* y = margin_top + i * (chr_height + chr_spacing)
track_y(k) == margin_top + k * (chr_height + chr_spacing)

\* chr_width, for max_chr_len # 0
chr_width(chrom) ==
    RMul(RInt(svg_width - 2 * margin_side),
         RDiv(RInt(Get(chr_lengths, chrom)), RInt(max_chr_len)))

\* x of a gene rectangle or an SNP point, for chr_lengths[chrom] # 0
position_x(start, chrom) ==
    RAdd(RInt(margin_side),
         RMul(RDiv(RInt(start - 1), RInt(Get(chr_lengths, chrom))), chr_width(chrom)))

\* the proportional width, without the floor of 1 pixel
gene_width_unclamped(start, end, chrom) ==
    RMul(RDiv(RInt(end - start + 1), RInt(Get(chr_lengths, chrom))),
         chr_width(chrom))

gene_width(start, end, chrom) ==
    RMax(RInt(1),
         RMul(RDiv(RInt(end - start + 1), RInt(Get(chr_lengths, chrom))),
              chr_width(chrom)))

min_clamp == QSub(QRat(mean), stdev)
max_clamp == QAdd(QRat(mean), stdev)

\* only the upper clamp applied
clamped_above_only(value) == QMin(QRat(value), max_clamp)

clamped_value(value) == QMax(QMin(QRat(value), max_clamp), min_clamp)

IntMin(a, b) == IF b < a THEN b ELSE a

\* the raw value binned, without the clamp
color_index_unclamped(value) ==
    IntMin(QTrunc(QScale(QDiv(QSub(QRat(value), min_clamp),
                              QSub(max_clamp, min_clamp)),
                         RInt(Len(colors)))),
           Len(colors) - 1)

\* color_index, for max_clamp - min_clamp # 0
color_index(value) ==
    IntMin(QTrunc(QScale(QDiv(QSub(clamped_value(value), min_clamp),
                              QSub(max_clamp, min_clamp)),
                         RInt(Len(colors)))),
           Len(colors) - 1)

\* colors[color_index]: a negative index counts from the end of the list
palette(index) == colors[IF index < 0 THEN Len(colors) + index + 1 ELSE index + 1]

gene_rect(rec, chrom, y) ==
    [tag |-> "rect",
     insert |-> <<position_x(rec[1], chrom), RInt(y)>>,
     size |-> <<gene_width(rec[1], rec[2], chrom), RInt(chr_height)>>,
     fill |-> palette(color_index(rec[3])),
     stroke |-> "none"]

\* max(value for chrom in snps_data for _, _, value in snps_data[chrom])
all_values(data) ==
    Concat([k \in 1..Len(data) |->
              [j \in 1..Len(data[k][2]) |-> data[k][2][j][3]]])

\* the height scaled by the max SNP value of the chromosome itself
snp_point_local_max(rec, chrom, y) ==
    LET own == Get(snps_data, chrom)
        local_max == MaxRat([k \in 1..Len(own) |-> own[k][3]])
    IN  << position_x(rec[1], chrom),
           RSub(RInt(y - snp_gap),
                RMul(RDiv(rec[3], local_max), RInt(snp_band))) >>

snp_point(rec, chrom, y) ==
    << position_x(rec[1], chrom),
       RSub(RInt(y - snp_gap),
            RMul(RDiv(rec[3], max_snp_value), RInt(snp_band))) >>

\* the id made from the chromosome's number instead of its name
clip_id_by_number(chrom) == <<"c", "l", "i", "p", "-">> \o str(int(Suffix(chrom)))

clip_id(chrom) == <<"c", "l", "i", "p", "-">> \o chrom
clip_url(chrom) == <<"u", "r", "l", "(", "#">> \o clip_id(chrom) \o <<")">>

-----------------------------------------------------------------------------
(* The input pairs of the model.  Every line is written out as text and    *)
(* goes through read_data.                                                 *)

MaxLines == 3           \* lines per file in the ordering family
MaxColourGenes == 4     \* gene records in the colour family
MaxValue == 3           \* gene values 0..MaxValue in the colour family
MaxCoord == 2           \* coordinates -MaxCoord..MaxCoord in the coordinate family
MaxSnpLines == 2        \* SNP records in the SNP family
MaxSnpValue == 2        \* SNP values -1..MaxSnpValue in the SNP family
LongEnd == 5000         \* the end of a chromosome far longer than the canvas is wide

chr2 == <<"c", "h", "r", "2">>
chr02 == <<"c", "h", "r", "0", "2">>
chr10 == <<"c", "h", "r", "1", "0">>
chrX == <<"c", "h", "r", "X">>
chr == <<"c", "h", "r">>

Line(chrom, start, end, value) == <<chrom, str(start), str(end), str(value)>>

\* files of up to MaxLines records over three names, positions descending:
\* record k of n is (n+1-k, n+1-k+d, k)
NamedFiles(d) ==
    UNION { { [k \in 1..n |-> Line(f[k], n + 1 - k, n + 1 - k + d, k)] :
                f \in [1..n -> {chr2, chr10, chr02}] } : n \in 0..MaxLines }

OrderInputs == NamedFiles(1) \X NamedFiles(0)

\* gene values 0..MaxValue, the records alternating between chr2 and chr10
ColourInputs ==
    (UNION { { [k \in 1..n |-> Line(IF k % 2 = 1 THEN chr2 ELSE chr10, k, k, v[k])] :
                 v \in [1..n -> 0..MaxValue] } : n \in 2..MaxColourGenes })
    \X { << Line(chr2, 1, 1, 1), Line(chr10, 1, 1, 2) >> }

Coords == (0 - MaxCoord)..MaxCoord

CoordInputs ==
    { << Line(chr2, c[1], c[2], 1), Line(c[5], c[3], c[4], 2) >> :
        c \in Coords \X Coords \X Coords \X Coords \X {chr2, chr10} }
    \X { << Line(chr2, 1, 1, 1), Line(chr10, 2, 2, 2) >> }

SnpInputs ==
    { << Line(chr2, 1, 4, 1), Line(chr10, 1, 2, 2) >> }
    \X (UNION { { [k \in 1..n |-> Line(f[k][1], k, k, f[k][2])] :
                    f \in [1..n -> {chr2, chr10} \X ((0 - 1)..MaxSnpValue)] } :
                n \in 1..MaxSnpLines })

\* a gene of 1 base, a gene with start > end and a gene of LongEnd bases
LongInputs ==
    { << Line(chr2, 1, 1, 0), Line(chr2, 9, 2, 1), Line(chr2, 1, LongEnd, 2) >> }
    \X { << Line(chr2, 1, 1, 1), Line(chr2, LongEnd, LongEnd, 2) >> }

GoodGenes == << Line(chr2, 1, 2, 1), Line(chr2, 2, 3, 2) >>

BadLines ==
    { << <<chr2, str(1), str(2)>> >>,                  \* three fields
      << <<>> >>,                                      \* a blank line
      << <<chr2, <<"X">>, str(2), str(1)>> >>,         \* start is no integer
      << <<chr2, str(1), str(2), <<"X">>>> >>,         \* value is no number
      << Line(chr2, 1, 2, 1), <<chr2, str(1), <<"-">>, str(1)>> >> }

BadNames ==
    { << Line(chrX, 1, 2, 1), Line(chr2, 2, 3, 2) >>,
      << Line(chr2, 1, 2, 1), Line(chr, 2, 3, 2) >> }

\* gene tables of a single record, of equal values, or with a chromosome of
\* length 0
BadStatistics ==
    { << Line(chr2, 1, 2, 1) >>,
      << Line(chr2, 1, 2, 1), Line(chr2, 2, 3, 1) >>,
      << Line(chr2, 1, 0, 1), Line(chr2, 0, 0, 2) >>,
      << Line(chr2, 1, 0, 1), Line(chr10, 1, 2, 2) >> }

\* an SNP table that is empty, whose max value is 0, that misses chr2, and one
\* with a name without number
BadSnps ==
    { <<>>,
      << Line(chr2, 1, 1, 0) >>,
      << Line(chr10, 1, 1, 1) >>,
      << <<chr2, str(1), str(1)>> >> }

FailingInputs ==
    ((BadLines \cup BadNames \cup BadStatistics \cup {<<>>})
       \X { << Line(chr2, 1, 1, 1), Line(chr10, 1, 1, 2) >> })
    \cup ({GoodGenes} \X BadSnps)

\* accepted although the SNP table has a name without number
OddInputs == { <<GoodGenes, << Line(chr2, 1, 1, 1), Line(chrX, 1, 1, 2) >> >> }

-----------------------------------------------------------------------------

InitOn(inputs) ==
    /\ \E in \in inputs : genes_file = in[1] /\ snps_file = in[2]
    /\ pc = "read_genes"
    /\ genes_data = <<>>
    /\ snps_data = <<>>
    /\ chromosomes = <<>>
    /\ svg_height = None
    /\ chr_lengths = <<>>
    /\ max_chr_len = None
    /\ max_snp_value = None
    /\ mean = None
    /\ stdev = None
    /\ i = None
    /\ chr_shape = None
    /\ points = <<>>
    /\ dwg = <<>>
    /\ defs = <<>>
    /\ output_file = <<>>
    /\ error = None

\* a failure handler that saves what has been drawn so far
RaiseAfterSaving(exception) ==
    /\ pc' = "failed"
    /\ error' = exception
    /\ output_file' = Append(output_file,
                              [size |-> <<svg_width, svg_height>>, defs |-> defs,
                               elements |-> dwg])
    /\ UNCHANGED <<genes_file, snps_file, genes_data, snps_data, chromosomes,
                   svg_height, chr_lengths, max_chr_len, max_snp_value, mean,
                   stdev, i, chr_shape, points, dwg, defs>>

\* the ordering and the SNP families
Init == InitOn(OrderInputs \cup SnpInputs \cup LongInputs \cup FailingInputs
               \cup OddInputs)

\* the colour family
InitColour == InitOn(ColourInputs \cup LongInputs \cup FailingInputs \cup OddInputs)

\* the coordinate family
InitCoord == InitOn(CoordInputs \cup LongInputs \cup FailingInputs \cup OddInputs)

\* an uncaught exception: the process ends, nothing else changes
Raise(exception) ==
    /\ pc' = "failed"
    /\ error' = exception
    /\ UNCHANGED <<genes_file, snps_file, genes_data, snps_data, chromosomes,
                   svg_height, chr_lengths, max_chr_len, max_snp_value, mean,
                   stdev, i, chr_shape, points, dwg, defs, output_file>>

\* genes_data = read_data(genes_file)
ReadGenes ==
    /\ pc = "read_genes"
    /\ \/ /\ ~FileOk(genes_file)
          /\ Raise("ValueError")
       \/ /\ FileOk(genes_file)
          /\ genes_data' = read_data(genes_file)
          /\ pc' = "read_snps"
          /\ UNCHANGED <<genes_file, snps_file, snps_data, chromosomes,
                         svg_height, chr_lengths, max_chr_len, max_snp_value,
                         mean, stdev, i, chr_shape, points, dwg, defs,
                         output_file, error>>

\* snps_data = read_data(snps_file)
ReadSnps ==
    /\ pc = "read_snps"
    /\ \/ /\ ~FileOk(snps_file)
          /\ Raise("ValueError")
       \/ /\ FileOk(snps_file)
          /\ snps_data' = read_data(snps_file)
          /\ pc' = "sort"
          /\ UNCHANGED <<genes_file, snps_file, genes_data, chromosomes,
                         svg_height, chr_lengths, max_chr_len, max_snp_value,
                         mean, stdev, i, chr_shape, points, dwg, defs,
                         output_file, error>>

\* a sort step that also rejects an SNP chromosome without genes
SortChromosomesChecked ==
    /\ pc = "sort"
    /\ \/ /\ \/ \E k \in 1..Len(genes_data) : ~IsInt(Suffix(genes_data[k][1]))
             \/ \E k \in 1..Len(snps_data) : ~Has(genes_data, snps_data[k][1])
          /\ Raise("ValueError")
       \/ /\ \A k \in 1..Len(genes_data) : IsInt(Suffix(genes_data[k][1]))
          /\ \A k \in 1..Len(snps_data) : Has(genes_data, snps_data[k][1])
          /\ chromosomes' = sorted(Keys(genes_data))
          /\ pc' = "drawing"
          /\ UNCHANGED <<genes_file, snps_file, genes_data, snps_data,
                         svg_height, chr_lengths, max_chr_len, max_snp_value,
                         mean, stdev, i, chr_shape, points, dwg, defs,
                         output_file, error>>

\* chromosomes = sorted(genes_data.keys(), key=lambda x: int(x[3:]))
SortChromosomes ==
    /\ pc = "sort"
    /\ \/ /\ \E k \in 1..Len(genes_data) : ~IsInt(Suffix(genes_data[k][1]))
          /\ Raise("ValueError")
       \/ /\ \A k \in 1..Len(genes_data) : IsInt(Suffix(genes_data[k][1]))
          /\ chromosomes' = sorted(Keys(genes_data))
          /\ pc' = "drawing"
          /\ UNCHANGED <<genes_file, snps_file, genes_data, snps_data,
                         svg_height, chr_lengths, max_chr_len, max_snp_value,
                         mean, stdev, i, chr_shape, points, dwg, defs,
                         output_file, error>>

\* dwg = svgwrite.Drawing(output_file, size=...) and the white background:
\* the drawing is built in memory, the file is not touched
CreateDrawing ==
    /\ pc = "drawing"
    /\ svg_height' = Len(chromosomes) * (chr_height + chr_spacing)
                       + margin_top + margin_bottom
    /\ dwg' = << [tag |-> "rect", insert |-> <<RInt(0), RInt(0)>>,
                  size |-> <<"100%", "100%">>, fill |-> "white"] >>
    /\ defs' = <<>>
    /\ pc' = "lengths"
    /\ UNCHANGED <<genes_file, snps_file, genes_data, snps_data, chromosomes,
                   chr_lengths, max_chr_len, max_snp_value, mean, stdev, i,
                   chr_shape, points, output_file, error>>

\* chr_lengths[chrom] = max(gene_ends); max_chr_len = max(chr_lengths.values());
\* max() of an empty sequence raises ValueError
ComputeLengths ==
    /\ pc = "lengths"
    /\ \/ /\ \/ chromosomes = <<>>
             \/ \E k \in 1..Len(chromosomes) : Get(genes_data, chromosomes[k]) = <<>>
          /\ Raise("ValueError")
       \/ /\ chromosomes # <<>>
          /\ \A k \in 1..Len(chromosomes) : Get(genes_data, chromosomes[k]) # <<>>
          /\ LET lengths == [k \in 1..Len(chromosomes) |->
                               <<chromosomes[k],
                                 get_chromosome_length(Get(genes_data, chromosomes[k]))>>]
             IN  /\ chr_lengths' = lengths
                 /\ max_chr_len' = MaxInt(Values(lengths))
          /\ pc' = "stats"
          /\ UNCHANGED <<genes_file, snps_file, genes_data, snps_data,
                         chromosomes, svg_height, max_snp_value, mean, stdev,
                         i, chr_shape, points, dwg, defs, output_file, error>>

\* gene_values, max_snp_value, mean, stdev
ComputeStats ==
    /\ pc = "stats"
    /\ LET gene_values == all_values(genes_data)
           snp_values == all_values(snps_data)
       IN  \/ /\ snp_values = <<>>
              /\ Raise("ValueError")
           \/ /\ snp_values # <<>>
              /\ Len(gene_values) < 2
              /\ max_snp_value' = MaxRat(snp_values)
              /\ mean' = statistics_mean(gene_values)
              /\ pc' = "failed"
              /\ error' = "StatisticsError"
              /\ UNCHANGED <<genes_file, snps_file, genes_data, snps_data,
                             chromosomes, svg_height, chr_lengths, max_chr_len,
                             stdev, i, chr_shape, points, dwg, defs, output_file>>
           \/ /\ snp_values # <<>>
              /\ Len(gene_values) >= 2
              /\ max_snp_value' = MaxRat(snp_values)
              /\ mean' = statistics_mean(gene_values)
              /\ stdev' = statistics_stdev(gene_values)
              /\ i' = 0
              /\ pc' = IF 0 < Len(chromosomes) THEN "backbone" ELSE "ruler"
              /\ UNCHANGED <<genes_file, snps_file, genes_data, snps_data,
                             chromosomes, svg_height, chr_lengths, max_chr_len,
                             chr_shape, points, dwg, defs, output_file, error>>

\* the chromosome of the loop's current iteration
chrom_i == chromosomes[i + 1]

\* lines 66-74: the capsule, added to the drawing and to a clip path of <defs>
DrawBackbone ==
    /\ pc = "backbone"
    /\ \/ /\ max_chr_len = 0
          /\ Raise("ZeroDivisionError")
       \/ /\ max_chr_len # 0
          /\ LET shape == [create_chromosome_shape(RInt(margin_side), RInt(track_y(i)),
                                                   chr_width(chrom_i), chr_height)
                             EXCEPT !.fill = "none", !.stroke = <<"black", 1>>]
             IN  /\ chr_shape' = shape
                 /\ dwg' = Append(dwg, shape)
                 /\ defs' = Append(defs, [tag |-> "clipPath", id |-> clip_id(chrom_i),
                                          children |-> <<shape>>])
          /\ pc' = "heatmap"
          /\ UNCHANGED <<genes_file, snps_file, genes_data, snps_data,
                         chromosomes, svg_height, chr_lengths, max_chr_len,
                         max_snp_value, mean, stdev, i, points, output_file, error>>

\* lines 76-84: one rectangle per gene record, in a group clipped to the capsule
DrawHeatmap ==
    /\ pc = "heatmap"
    /\ \/ /\ Get(chr_lengths, chrom_i) = 0
          /\ Raise("ZeroDivisionError")
       \/ /\ Get(chr_lengths, chrom_i) # 0
          /\ QEq(max_clamp, min_clamp)
          /\ Raise("ZeroDivisionError")
       \/ /\ Get(chr_lengths, chrom_i) # 0
          /\ ~QEq(max_clamp, min_clamp)
          /\ LET genes == Get(genes_data, chrom_i)
                 heatmap_group ==
                     [tag |-> "g", clip_path |-> clip_url(chrom_i),
                      children |-> [k \in 1..Len(genes) |->
                                      gene_rect(genes[k], chrom_i, track_y(i))]]
             IN  dwg' = Append(dwg, heatmap_group)
          /\ pc' = "snp_line"
          /\ UNCHANGED <<genes_file, snps_file, genes_data, snps_data,
                         chromosomes, svg_height, chr_lengths, max_chr_len,
                         max_snp_value, mean, stdev, i, chr_shape, points, defs,
                         output_file, error>>

\* lines 86-90: the polyline through the chromosome's SNP records
DrawSnpLine ==
    /\ pc = "snp_line"
    /\ \/ /\ ~Has(snps_data, chrom_i)
          /\ Raise("KeyError")
       \/ /\ Has(snps_data, chrom_i)
          /\ RSign(max_snp_value) = 0
          /\ Raise("ZeroDivisionError")
       \/ /\ Has(snps_data, chrom_i)
          /\ RSign(max_snp_value) # 0
          /\ LET snps == Get(snps_data, chrom_i)
                 pts == [k \in 1..Len(snps) |-> snp_point(snps[k], chrom_i, track_y(i))]
             IN  /\ points' = pts
                 /\ dwg' = Append(dwg, [tag |-> "polyline", points |-> pts,
                                        fill |-> "none", stroke |-> "red",
                                        stroke_width |-> Rat(3, 2)])
          /\ pc' = "axes"
          /\ UNCHANGED <<genes_file, snps_file, genes_data, snps_data,
                         chromosomes, svg_height, chr_lengths, max_chr_len,
                         max_snp_value, mean, stdev, i, chr_shape, defs,
                         output_file, error>>

\* lines 92-100: the value axis, the baseline and the chromosome's name;
\* then the loop goes on to the next chromosome
DrawAxes ==
    /\ pc = "axes"
    /\ LET y == track_y(i)
           y_axis_x == RInt(margin_side - 10)
           y_top == MinRat([k \in 1..Len(points) |-> points[k][2]])
           y_bottom == RInt(y - snp_gap)
       IN  dwg' = dwg \o
             << [tag |-> "line", start |-> <<y_axis_x, y_top>>,
                 end |-> <<y_axis_x, y_bottom>>, stroke |-> "black", stroke_width |-> 1],
                [tag |-> "line", start |-> <<RInt(margin_side), y_bottom>>,
                 end |-> <<RAdd(RInt(margin_side), chr_width(chrom_i)), y_bottom>>,
                 stroke |-> "black", stroke_width |-> 1],
                [tag |-> "text", text |-> chrom_i,
                 insert |-> <<RInt(margin_side - 20),
                              RAdd(RAdd(RInt(y), RDiv(RInt(chr_height), RInt(2))), RInt(5))>>,
                 font_size |-> 20, fill |-> "black", text_anchor |-> "end"] >>
    /\ i' = i + 1
    /\ pc' = IF i + 1 < Len(chromosomes) THEN "backbone" ELSE "ruler"
    /\ UNCHANGED <<genes_file, snps_file, genes_data, snps_data, chromosomes,
                   svg_height, chr_lengths, max_chr_len, max_snp_value, mean,
                   stdev, chr_shape, points, defs, output_file, error>>

\* lines 102-107: six ticks labelled in megabases
DrawRuler ==
    /\ pc = "ruler"
    /\ LET scale_y == RSub(RInt(svg_height), RDiv(RInt(margin_bottom), RInt(2)))
           x(k) == RAdd(RInt(margin_side),
                        RDiv(RInt(k * (svg_width - 2 * margin_side)), RInt(5)))
           mb(k) == RDiv(RDiv(RInt(k * max_chr_len), RInt(5)), RInt(1000000))
           tick(k) == << [tag |-> "line", start |-> <<x(k), scale_y>>,
                          end |-> <<x(k), RAdd(scale_y, RInt(5))>>,
                          stroke |-> "black", stroke_width |-> 1],
                         [tag |-> "text",
                          text |-> format_1f(mb(k)) \o <<" ", "M", "b">>,
                          insert |-> <<x(k), RAdd(scale_y, RInt(20))>>,
                          font_size |-> 20, text_anchor |-> "middle"] >>
       IN  dwg' = dwg \o Concat([k \in 1..ruler_ticks |-> tick(k - 1)])
    /\ pc' = "legend"
    /\ UNCHANGED <<genes_file, snps_file, genes_data, snps_data, chromosomes,
                   svg_height, chr_lengths, max_chr_len, max_snp_value, mean,
                   stdev, i, chr_shape, points, defs, output_file, error>>

\* lines 109-118: one rectangle per palette colour, and the Min and Max labels
DrawLegend ==
    /\ pc = "legend"
    /\ LET left == svg_width - margin_side - heatmap_scale_width
           top == RDiv(RInt(margin_top), RInt(2))
           step == RDiv(RInt(heatmap_scale_width), RInt(Len(colors)))
           label_y == RAdd(RAdd(top, RInt(heatmap_scale_height)), RInt(15))
           swatch(k) == [tag |-> "rect",
                         insert |-> <<RAdd(RInt(left), RMul(RInt(k - 1), step)), top>>,
                         size |-> <<step, RInt(heatmap_scale_height)>>,
                         fill |-> colors[k], stroke |-> "none"]
       IN  dwg' = dwg \o [k \in 1..Len(colors) |-> swatch(k)] \o
             << [tag |-> "text", text |-> <<"M", "i", "n">>,
                 insert |-> <<RInt(left), label_y>>,
                 font_size |-> 20, text_anchor |-> "start"],
                [tag |-> "text", text |-> <<"M", "a", "x">>,
                 insert |-> <<RInt(svg_width - margin_side), label_y>>,
                 font_size |-> 20, text_anchor |-> "end"] >>
    /\ pc' = "save"
    /\ UNCHANGED <<genes_file, snps_file, genes_data, snps_data, chromosomes,
                   svg_height, chr_lengths, max_chr_len, max_snp_value, mean,
                   stdev, i, chr_shape, points, defs, output_file, error>>

\* dwg.save(): the only write of the output file
Save ==
    /\ pc = "save"
    /\ output_file' = Append(output_file,
                              [size |-> <<svg_width, svg_height>>, defs |-> defs,
                               elements |-> dwg])
    /\ pc' = "done"
    /\ UNCHANGED <<genes_file, snps_file, genes_data, snps_data, chromosomes,
                   svg_height, chr_lengths, max_chr_len, max_snp_value, mean,
                   stdev, i, chr_shape, points, dwg, defs, error>>

Next ==
    \/ ReadGenes
    \/ ReadSnps
    \/ SortChromosomes
    \/ CreateDrawing
    \/ ComputeLengths
    \/ ComputeStats
    \/ DrawBackbone
    \/ DrawHeatmap
    \/ DrawSnpLine
    \/ DrawAxes
    \/ DrawRuler
    \/ DrawLegend
    \/ Save

Spec == Init /\ [][Next]_vars
SpecColour == InitColour /\ [][Next]_vars
SpecCoord == InitCoord /\ [][Next]_vars

-----------------------------------------------------------------------------
(* Reading the drawing and the raw input files, for the properties below.  *)

Paths == SelectSeq(dwg, LAMBDA e : e.tag = "path")
Groups == SelectSeq(dwg, LAMBDA e : e.tag = "g")
Polylines == SelectSeq(dwg, LAMBDA e : e.tag = "polyline")
TrackLabels ==
    SelectSeq(dwg, LAMBDA e : e.tag = "text" /\ e.text_anchor = "end"
                              /\ e.insert[1] = RInt(margin_side - 20))
RulerLabels == SelectSeq(dwg, LAMBDA e : e.tag = "text" /\ e.text_anchor = "middle")
Swatches ==
    SelectSeq(dwg, LAMBDA e : e.tag = "rect" /\ e.insert[2] = RDiv(RInt(margin_top), RInt(2)))
TrackNames == [k \in 1..Len(TrackLabels) |-> TrackLabels[k].text]

\* the width of a capsule, read from its path: from the M point to the L point
\* plus the two radii
PathWidth(path) == RAdd(RSub(path.d[2][2], path.d[1][2]), RInt(chr_height))
PathY(path) == path.d[1][3]

NamesOf(file) == {file[k][1] : k \in 1..Len(file)}

\* the records (start, end, value) of chromosome c, as integers, in file order
RECURSIVE RawRecords(_, _)
RawRecords(file, c) ==
    IF file = <<>> THEN <<>>
    ELSE (IF Head(file)[1] = c
            THEN << <<int(Head(file)[2]), int(Head(file)[3]), int(Head(file)[4])>> >>
            ELSE <<>>)
         \o RawRecords(Tail(file), c)

RECURSIVE SumInt(_)
SumInt(xs) == IF xs = <<>> THEN 0 ELSE Head(xs) + SumInt(Tail(xs))

RawValues(file) == [k \in 1..Len(file) |-> int(file[k][4])]
RawEnds(file, c) == LET r == RawRecords(file, c) IN [k \in 1..Len(r) |-> r[k][2]]
RawLength(c) == MaxInt(RawEnds(genes_file, c))
RawMaxLength == MaxInt(SetToSeqInt({RawLength(c) : c \in NamesOf(genes_file)}))
RawMaxSnp == MaxInt(RawValues(snps_file))

\* n, the sum and n * (sum of squares) - sum^2 of the gene values:
\* mean = GS / GN and variance = GD / (GN * (GN - 1))
GN == Len(genes_file)
GS == SumInt(RawValues(genes_file))
GD == LET xs == RawValues(genes_file)
      IN  GN * SumInt([k \in 1..GN |-> xs[k] * xs[k]]) - GS * GS

\* v >= mean + stdev and v <= mean - stdev, in integers
AtOrAbove(v) == GN * v - GS >= 0 /\ (GN - 1) * (GN * v - GS) * (GN * v - GS) >= GN * GD
AtOrBelow(v) == GN * v - GS <= 0 /\ (GN - 1) * (GN * v - GS) * (GN * v - GS) >= GN * GD

\* the failures of a run, read from the input files alone
MalformedLine == ~FileOk(genes_file) \/ ~FileOk(snps_file)
MalformedName == \E c \in NamesOf(genes_file) : ~IsInt(Suffix(c))
EmptyTable == genes_file = <<>> \/ snps_file = <<>>
ZeroStdev == GN < 2 \/ GD = 0
ZeroMaxSnp == RawMaxSnp = 0
ZeroLength == \E c \in NamesOf(genes_file) : RawLength(c) = 0
NoSnpRecords == \E c \in NamesOf(genes_file) : c \notin NamesOf(snps_file)
InputFails ==
    \/ MalformedLine
    \/ MalformedName
    \/ EmptyTable
    \/ ZeroStdev
    \/ ZeroMaxSnp
    \/ ZeroLength
    \/ NoSnpRecords

-----------------------------------------------------------------------------
(* C1: after a completed run the chromosome tracks of the document are the *)
(* keys of the gene table, each exactly once and nothing else, in          *)
(* ascending order of the integer after the 3-character prefix, and the    *)
(* track at index i is drawn at the vertical offset 160 + i * 134.         *)

C1_TracksSortedByNumber ==
    pc = "done" =>
      LET doc == output_file[1].elements
          paths == SelectSeq(doc, LAMBDA e : e.tag = "path")
          names == TrackNames
      IN  /\ doc = dwg
          /\ Range(names) = NamesOf(genes_file)
          /\ Len(names) = Cardinality(NamesOf(genes_file))
          /\ Len(paths) = Len(names)
          /\ \A a, b \in 1..Len(names) :
               a < b => int(Suffix(names[a])) <= int(Suffix(names[b]))
          /\ \A k \in 1..Len(names) :
               /\ PathY(paths[k]) = RInt(160 + (k - 1) * 134)
               /\ TrackLabels[k].insert[2] = RInt(160 + (k - 1) * 134 + 12)

\* a completed run whose gene file names chr10 before chr2: numeric order
\* differs from file order and from the order of the names as strings
C1_Witness ==
    /\ pc = "done"
    /\ TrackNames = <<chr2, chr10>>
    /\ genes_file[1][1] = chr10

(* C7: after a completed run <defs> holds exactly one clip path per        *)
(* rendered chromosome, their ids are pairwise distinct, and the heatmap   *)
(* group of each chromosome references the clip path of that chromosome    *)
(* and no other.                                                           *)

C7_OneClipPathPerChromosome ==
    pc = "done" =>
      /\ Len(defs) = Len(TrackNames)
      /\ Len(Groups) = Len(TrackNames)
      /\ \A a, b \in 1..Len(defs) : a # b => defs[a].id # defs[b].id
      /\ \A k \in 1..Len(defs) :
           /\ defs[k].tag = "clipPath"
           /\ defs[k].id = <<"c", "l", "i", "p", "-">> \o TrackNames[k]
           /\ defs[k].children = <<Paths[k]>>
           /\ \A j \in 1..Len(defs) :
                (Groups[k].clip_path = <<"u", "r", "l", "(", "#">> \o defs[j].id \o <<")">>)
                  <=> (j = k)

\* a completed run with two chromosomes of the same number, chr2 and chr02
C7_Witness ==
    /\ pc = "done"
    /\ {chr2, chr02} \subseteq Range(TrackNames)

(* C10: the gene rectangles of a chromosome are emitted in the order of    *)
(* its records in the gene file and the SNP polyline visits its points in  *)
(* the order of its records in the SNP file, wherever the records of other *)
(* chromosomes stand between them; positions are never sorted.             *)

C10_FileOrder ==
    /\ \A k \in 1..Len(Groups) :
         LET c == chromosomes[k]
             recs == RawRecords(genes_file, c)
             rects == Groups[k].children
         IN  /\ Len(rects) = Len(recs)
             /\ \A j \in 1..Len(recs) :
                  /\ rects[j].insert[1] = position_x(recs[j][1], c)
                  /\ rects[j].size[1] = gene_width(recs[j][1], recs[j][2], c)
    /\ \A k \in 1..Len(Polylines) :
         LET c == chromosomes[k]
             recs == RawRecords(snps_file, c)
             pts == Polylines[k].points
         IN  /\ Len(pts) = Len(recs)
             /\ \A j \in 1..Len(recs) :
                  pts[j] = snp_point(<<recs[j][1], recs[j][2], RInt(recs[j][3])>>,
                                     c, track_y(k - 1))

\* a completed run in which chr2 has two gene records with a chr10 record
\* between them, and two SNP records whose positions descend in the file
C10_Witness ==
    /\ pc = "done"
    /\ Len(genes_file) = 3
    /\ genes_file[1][1] = chr2 /\ genes_file[2][1] = chr10 /\ genes_file[3][1] = chr2
    /\ \E k \in 1..Len(Polylines) :
         /\ Len(Polylines[k].points) = 2
         /\ RLt(Polylines[k].points[2][1], Polylines[k].points[1][1])

(* C2: mean and stdev are those of all gene values of all chromosomes;    *)
(* every gene value is clamped to [mean - stdev, mean + stdev] before      *)
(* binning; a gene value at or above mean + stdev is drawn in the last     *)
(* (darkest) of the 5 colours and one at or below mean - stdev in the      *)
(* first (lightest).                                                       *)

C2_ClampedBinning ==
    \A k \in 1..Len(Groups) :
      LET recs == RawRecords(genes_file, chromosomes[k])
          rects == Groups[k].children
      IN  /\ mean[1] * GN = GS * mean[2]
          /\ stdev.a = RInt(0) /\ stdev.b = RInt(1)
          /\ stdev.r[1] * GN * (GN - 1) = GD * stdev.r[2]
          /\ GD > 0
          /\ \A j \in 1..Len(recs) :
               LET v == recs[j][3]
                   cv == clamped_value(RInt(v))
               IN  /\ QLe(min_clamp, cv) /\ QLe(cv, max_clamp)
                   /\ AtOrAbove(v) => QEq(cv, max_clamp)
                   /\ AtOrBelow(v) => QEq(cv, min_clamp)
                   /\ ~AtOrAbove(v) /\ ~AtOrBelow(v) => QEq(cv, QRat(RInt(v)))
                   /\ AtOrAbove(v) => rects[j].fill = colors[5]
                   /\ AtOrBelow(v) => rects[j].fill = colors[1]

\* the gene values drawn so far
DrawnValues ==
    UNION { { RawRecords(genes_file, chromosomes[k])[j][3] :
                j \in 1..Len(Groups[k].children) } : k \in 1..Len(Groups) }

\* a completed run of two heatmaps with a value strictly above mean + stdev,
\* a value strictly below mean - stdev and a value strictly inside the range
C2_Witness ==
    /\ pc = "done"
    /\ Len(Groups) = 2
    /\ \E v \in DrawnValues : AtOrAbove(v) /\ ~QEq(QRat(RInt(v)), max_clamp)
    /\ \E v \in DrawnValues : AtOrBelow(v) /\ ~QEq(QRat(RInt(v)), min_clamp)
    /\ \E v \in DrawnValues : ~AtOrAbove(v) /\ ~AtOrBelow(v)

(* C9: for every gene value, below, inside or above the clamp range, and   *)
(* every population of gene values with stdev > 0, the colour index lies   *)
(* in 0..4: it is never negative and never past the palette, and the       *)
(* rectangle is filled with the palette entry at that index.               *)

C9_ColourIndexInRange ==
    \A k \in 1..Len(Groups) :
      LET recs == RawRecords(genes_file, chromosomes[k])
          rects == Groups[k].children
      IN  \A j \in 1..Len(recs) :
            LET index == color_index(RInt(recs[j][3]))
            IN  /\ index \in 0..4
                /\ rects[j].fill = colors[index + 1]

\* a completed run that uses a middle bin as well as both end bins, with a
\* value strictly below the clamp range
C9_Witness ==
    /\ pc = "done"
    /\ LET used == {color_index(RInt(v)) : v \in DrawnValues}
       IN  {0, 4} \subseteq used /\ used \cap {1, 2, 3} # {}
    /\ \E v \in DrawnValues : QLt(QRat(RInt(v)), min_clamp)

(* C3: every gene rectangle has a width of at least 1 pixel, whatever the  *)
(* interval and the chromosome length, also for an interval that is tiny   *)
(* relative to the chromosome and for one with start > end.                *)

C3_MinimumWidth ==
    \A k \in 1..Len(Groups) :
      \A j \in 1..Len(Groups[k].children) :
        RLe(RInt(1), Groups[k].children[j].size[1])

\* a heatmap holding a gene of 1 base on a chromosome of more than 1000
\* bases and a gene with start > end, both drawn 1 pixel wide, and a gene
\* drawn wider than that
C3_Witness ==
    \E k \in 1..Len(Groups) :
      LET recs == RawRecords(genes_file, chromosomes[k])
          rects == Groups[k].children
      IN  /\ \E j \in 1..Len(recs) :
               /\ recs[j][1] = recs[j][2]
               /\ RawLength(chromosomes[k]) > svg_width
               /\ rects[j].size[1] = RInt(1)
          /\ \E j \in 1..Len(recs) :
               recs[j][1] > recs[j][2] /\ rects[j].size[1] = RInt(1)
          /\ \E j \in 1..Len(recs) : RLt(RInt(1), rects[j].size[1])

(* C4: a run that fails leaves no output, partial or whole.  The output    *)
(* file is written once, by the save step, after every chromosome track,   *)
(* the ruler and the legend are in the document; and no run completes on   *)
(* an input with a malformed line, a gene chromosome name without an       *)
(* integer suffix, an empty table, a zero standard deviation, a zero       *)
(* global max SNP value, a zero chromosome length or a gene chromosome     *)
(* without SNP records.                                                    *)

C4_NoPartialOutput ==
    /\ pc = "failed" => output_file = <<>> /\ error # None
    /\ pc = "done" => ~InputFails /\ error = None
    /\ output_file # <<>> =>
         /\ pc = "done"
         /\ Len(output_file) = 1
         /\ output_file[1].elements = dwg
         /\ output_file[1].defs = defs
         /\ Len(Paths) = Cardinality(NamesOf(genes_file))
         /\ Len(Groups) = Len(Paths)
         /\ Len(Polylines) = Len(Paths)
         /\ Len(TrackLabels) = Len(Paths)
         /\ Len(RulerLabels) = 6
         /\ Len(Swatches) = 5
         /\ dwg[Len(dwg)].text = <<"M", "a", "x">>

\* a run that failed on its second chromosome, the first track being complete
\* in the document in memory
C4_Witness ==
    /\ pc = "failed"
    /\ error = "KeyError"
    /\ Len(TrackLabels) = 1
    /\ Len(defs) = 2
    /\ output_file = <<>>

(* C5 as stated: a run that completes has a gene dataset for every         *)
(* chromosome referenced by its inputs, the SNP table included.            *)

C5_EveryReferencedChromosomeHasGenes ==
    pc = "done" =>
      \A c \in NamesOf(genes_file) \cup NamesOf(snps_file) :
        RawRecords(genes_file, c) # <<>>

(* C5 as amended: an empty gene table makes the run fail with nothing      *)
(* rendered, and every chromosome that is rendered has at least one gene   *)
(* interval, each drawn as a rectangle; a chromosome referenced only by    *)
(* the SNP table is no failure: a run fails only for one of the failures   *)
(* of C4, and otherwise completes without that chromosome.                 *)

C5_OnlyGeneChromosomesAreRendered ==
    /\ genes_file = <<>> => pc # "done" /\ defs = <<>> /\ Paths = <<>>
    /\ \A k \in 1..Len(Paths) : RawRecords(genes_file, chromosomes[k]) # <<>>
    /\ \A k \in 1..Len(Groups) :
         Len(Groups[k].children) = Len(RawRecords(genes_file, chromosomes[k]))
    /\ pc = "failed" => InputFails
    /\ pc = "done" => Range(TrackNames) = NamesOf(genes_file)

\* a completed run whose SNP table names a chromosome that has no gene
C5_Witness ==
    /\ pc = "done"
    /\ NamesOf(snps_file) \ NamesOf(genes_file) # {}
    /\ Range(TrackNames) \cap (NamesOf(snps_file) \ NamesOf(genes_file)) = {}

(* C6: every SNP point of every chromosome is plotted at 100 * (value /    *)
(* global max SNP value of the whole SNP table) above its track's baseline,*)
(* the line 30 pixels above the backbone top: a value equal to the global  *)
(* max is exactly 100 pixels above it, half the global max exactly 50.     *)

C6_SnpHeight ==
    \A k \in 1..Len(Polylines) :
      LET recs == RawRecords(snps_file, chromosomes[k])
          pts == Polylines[k].points
          baseline == RInt(160 + (k - 1) * 134 - 30)
      IN  \A j \in 1..Len(pts) :
            LET height == RSub(baseline, pts[j][2])
            IN  /\ height[1] * RawMaxSnp = 100 * recs[j][3] * height[2]
                /\ recs[j][3] = RawMaxSnp => height = RInt(100)
                /\ 2 * recs[j][3] = RawMaxSnp => height = RInt(50)

\* two tracks: a point at half the global max on one, 50 pixels up, and the
\* point of the global max on the other, 100 pixels up
C6_Witness ==
    /\ Len(Polylines) = 2
    /\ \E j \in 1..Len(Polylines[1].points) :
         RSub(RInt(160 - 30), Polylines[1].points[j][2]) = RInt(50)
    /\ \E j \in 1..Len(Polylines[2].points) :
         RSub(RInt(160 + 134 - 30), Polylines[2].points[j][2]) = RInt(100)
    /\ \A j \in 1..Len(Polylines[1].points) :
         RLt(RSub(RInt(160 - 30), Polylines[1].points[j][2]), RInt(100))

(* C8 as stated: of two backbones of a completed run the one of the longer *)
(* chromosome is not the narrower, the length of a chromosome being the    *)
(* largest end of its gene intervals.                                      *)

C8_WidthMonotone ==
    pc = "done" =>
      \A a, b \in 1..Len(Paths) :
        RawLength(chromosomes[a]) <= RawLength(chromosomes[b])
          => RLe(PathWidth(Paths[a]), PathWidth(Paths[b]))

(* C8 as amended: the width of a backbone is (1200 - 2 * 100) * (length /  *)
(* max length), the length being the largest end of the chromosome's gene  *)
(* intervals only, and it is non-decreasing in the length provided the max *)
(* chromosome length is positive.                                          *)

C8_WidthMonotoneForPositiveMax ==
    /\ \A k \in 1..Len(Paths) :
         LET w == PathWidth(Paths[k])
         IN  w[1] * RawMaxLength = (1200 - 2 * 100) * RawLength(chromosomes[k]) * w[2]
    /\ \A a, b \in 1..Len(Paths) :
         /\ RawMaxLength > 0
         /\ RawLength(chromosomes[a]) <= RawLength(chromosomes[b])
         => RLe(PathWidth(Paths[a]), PathWidth(Paths[b]))

\* two backbones of different width under a positive max length, the shorter
\* chromosome having an SNP beyond its last gene
C8_Witness ==
    /\ Len(Paths) = 2
    /\ RawMaxLength > 0
    /\ RLt(PathWidth(Paths[2]), PathWidth(Paths[1]))
    /\ pc = "done"
    /\ \E j \in 1..Len(RawRecords(snps_file, chromosomes[2])) :
         RawRecords(snps_file, chromosomes[2])[j][2] > RawLength(chromosomes[2])

=============================================================================
